---- MODULE Spec2Model ----
(***************************************************************************)
(* Model of the cppcheck pre-commit hook wrapper (hooks/cppcheck.py) and   *)
(* of the table-driven test harness (tests/test_hooks.py).                 *)
(*                                                                         *)
(* Two specifications share the variables of the module:                   *)
(*   SpecCmd      one life of the cppcheck-hook process: CppcheckCmd is    *)
(*                constructed from argv, run() runs cppcheck once per      *)
(*                file, exit_on_error() ends the process;                  *)
(*   SpecHarness  one pytest session of TestHooks: the scenario table is   *)
(*                generated, setup_class builds the test list, test_run    *)
(*                executes the tests one after the other.                  *)
(* External programs (cppcheck, the formatters, pre-commit) are the        *)
(* environment: what they return is chosen nondeterministically.           *)
(***************************************************************************)
EXTENDS Integers, Sequences, FiniteSets, TLC

VARIABLES
    \* ---- the cppcheck-hook process (hooks/cppcheck.py) ----
    cpc,         \* position of the process: "start", "constructed", "loop", "exited"
    argv,        \* sys.argv handed to main()
    args,        \* self.args
    files,       \* self.files
    idx,         \* number of iterations of the for loop of run() completed
    returncode,  \* self.returncode
    captured,    \* self.stdout + self.stderr: output captured from the subprocesses
    out,         \* what the wrapper itself has written to its stdout/stderr
    calls,       \* argument vectors of the cppcheck subprocesses started so far
    rcs,         \* exit statuses those subprocesses returned, in order
    exitcode,    \* exit status of the wrapper process, NoExit while it runs
    \* ---- the pytest session (tests/test_hooks.py) ----
    hpc,         \* position of the session
    osname,      \* os.name
    versions,    \* utils.get_versions()
    jsonTable,   \* content of tests/table_tests_integration.json
    table,       \* GeneratorT.scenarios
    tests,       \* TestHooks.scenarios
    nextTest,    \* index in tests of the next test pytest runs
    disk,        \* content of the sample files on disk
    last         \* what the last test_run did; for an integration test, found and
                 \* staged are the contents of its target files when it was
                 \* entered and when `pre-commit run` was started, actual and
                 \* retcode what `pre-commit run` wrote and returned

cmdVars == <<cpc, argv, args, files, idx, returncode, captured, out, calls, rcs, exitcode>>
harnessVars == <<hpc, osname, versions, jsonTable, table, tests, nextTest, disk, last>>
vars == <<cmdVars, harnessVars>>

\* ------------------------------------------------------------------ bounds
\* longest caller-supplied flag list
MaxArgs == 2
\* longest list of target files handed to the wrapper
MaxFiles == 2
\* longest integration table (tests/table_tests_integration.json)
MaxJson == 2

\* ------------------------------------------------------------ sequences
InSeq(x, s) == \E i \in 1..Len(s) : s[i] = x

Count(x, s) == Cardinality({i \in 1..Len(s) : s[i] = x})

SeqsUpTo(S, n) == UNION {[1..k -> S] : k \in 0..n}

NoRepeat(s) == \A i, j \in 1..Len(s) : s[i] = s[j] => i = j

RECURSIVE Flatten(_)
Flatten(ss) == IF ss = <<>> THEN <<>> ELSE Head(ss) \o Flatten(Tail(ss))

\* ================================================= hooks/cppcheck.py
NoExit == -1

\* The five defaults of CppcheckCmd.__init__, in the order they are passed.
DefaultQuiet == "-q"
DefaultExitcode == "--error-exitcode=1"
SuppressDefaults ==
    <<"--suppress=unmatchedSuppression", "--suppress=missingIncludeSystem",
      "--suppress=unusedFunction">>
Defaults == <<DefaultQuiet, DefaultExitcode>> \o SuppressDefaults

\* Flags a caller may pass: the defaults and one flag that is no default.
CallerFlags == {Defaults[i] : i \in 1..Len(Defaults)} \cup {"--std=c99"}

\* Paths a caller may pass.
CallerFiles == {"ok.c", "err.c", "err.cpp"}

IsFilePath(a) == a \in CallerFiles

\* Command.parse_args: drop argv[0]; the paths go to self.files, the rest,
\* in order, is self.args.
parse_args_args(av) == SelectSeq(Tail(av), LAMBDA a : ~IsFilePath(a))
parse_args_files(av) == SelectSeq(Tail(av), LAMBDA a : IsFilePath(a))

\* Command.add_if_missing(new_args): the list of one call is one default
\* with its acceptable spellings; it is appended, after the arguments
\* already there, only if none of its spellings appears yet.
add_if_missing(a, new_args) ==
    IF \E i \in 1..Len(new_args) : InSeq(new_args[i], a)
    THEN a
    ELSE a \o new_args

\* StaticAnalyzerCmd.apply_cppcheck_config: no configuration is present.
apply_cppcheck_config(a) == a

\* A variant of the constructor that injects the defaults in front of the
\* caller's arguments.
CppcheckCmd_args_prepend(av) ==
    LET a0 == parse_args_args(av)
        d1 == add_if_missing(a0, <<DefaultQuiet>>)
        d2 == add_if_missing(d1, <<DefaultExitcode>>)
        d3 == add_if_missing(d2, SuppressDefaults)
    IN  apply_cppcheck_config(SubSeq(d3, Len(a0) + 1, Len(d3)) \o a0)

\* CppcheckCmd.__init__: self.args once the constructor returns.
CppcheckCmd_args(av) ==
    LET a0 == parse_args_args(av)
        a1 == add_if_missing(a0, <<DefaultQuiet>>)
        a2 == add_if_missing(a1, <<DefaultExitcode>>)
        a3 == add_if_missing(a2, SuppressDefaults)
    IN  apply_cppcheck_config(a3)

\* A variant of the argument vector that leaves the shared arguments out.
run_argv_file_only(filename, a) == <<filename>>

\* The argument vector run() hands to run_command for one file.
run_argv(filename, a) == <<filename>> \o a

\* What one cppcheck subprocess may return: an exit status and either no
\* output or a diagnostic.
SubprocessCodes == {0, 1}
SubprocessOutputs == {<<>>, <<"diagnostic">>}

RunningInDirectory == "Running in directory"

\* StaticAnalyzerCmd.run_command: the subprocess has returned rc and written
\* o; its output is added to the captured output, its status is recorded.
run_command_captured(before, o) == before \o o
run_command_returncode(before, rc) == rc

\* StaticAnalyzerCmd.exit_on_error: exits, with the recorded status, when
\* that status is not zero.
exit_on_error_exits(recorded) == recorded # 0

\* main(): cmd = CppcheckCmd(argv)
Construct ==
    /\ cpc = "start"
    /\ args' = CppcheckCmd_args(argv)
    /\ files' = parse_args_files(argv)
    /\ cpc' = "constructed"
    /\ UNCHANGED <<argv, idx, returncode, captured, out, calls, rcs, exitcode>>
    /\ UNCHANGED harnessVars

\* run(): the print before the loop
RunPrint ==
    /\ cpc = "constructed"
    /\ out' = Append(out, RunningInDirectory)
    /\ cpc' = "loop"
    /\ UNCHANGED <<argv, args, files, idx, returncode, captured, calls, rcs, exitcode>>
    /\ UNCHANGED harnessVars

\* run(): one iteration of the loop, self.run_command([filename] + self.args)
RunCommand ==
    /\ cpc = "loop"
    /\ idx < Len(files)
    /\ \E rc \in SubprocessCodes, o \in SubprocessOutputs :
          /\ calls' = Append(calls, run_argv(files[idx + 1], args))
          /\ rcs' = Append(rcs, rc)
          /\ captured' = run_command_captured(captured, o)
          /\ returncode' = run_command_returncode(returncode, rc)
    /\ idx' = idx + 1
    /\ UNCHANGED <<cpc, argv, args, files, out, exitcode>>
    /\ UNCHANGED harnessVars

\* run(): self.exit_on_error() after the loop, which writes the captured
\* output before it exits; otherwise run() and main() return and the
\* process ends with status 0.
ExitOnError ==
    /\ cpc = "loop"
    /\ idx = Len(files)
    /\ IF exit_on_error_exits(returncode)
       THEN /\ out' = out \o captured
            /\ exitcode' = returncode
       ELSE /\ out' = out
            /\ exitcode' = 0
    /\ cpc' = "exited"
    /\ UNCHANGED <<argv, args, files, idx, returncode, captured, calls, rcs>>
    /\ UNCHANGED harnessVars

\* ================================================= tests/test_hooks.py
\* ---- strings that the code compares: sequences of character codes ----
\* Python's str comparison: by code point, a proper prefix is the smaller.
RECURSIVE StrLess(_, _)
StrLess(a, b) ==
    IF a = <<>> THEN b # <<>>
    ELSE IF b = <<>> THEN FALSE
    ELSE IF a[1] # b[1] THEN a[1] < b[1]
    ELSE StrLess(Tail(a), Tail(b))

StrLE(a, b) == a = b \/ StrLess(a, b)
StrGE(a, b) == a = b \/ StrLess(b, a)
StrGT(a, b) == StrLess(b, a)

\* "1.88", "1.89" and "20": the thresholds of the version ladders
V_1_88 == <<49, 46, 56, 56>>
V_1_89 == <<49, 46, 56, 57>>
V_20 == <<50, 48>>
\* "1.88.1", "0.13", "21.05": other versions an installation may report
V_1_88_1 == <<49, 46, 56, 56, 46, 49>>
V_0_13 == <<48, 46, 49, 51>>
V_21_05 == <<50, 49, 46, 48, 53>>

CppcheckVersions == {V_1_88, V_1_88_1, V_1_89}
OclintVersions == {V_0_13, V_21_05}
OsNames == {"posix", "nt"}

\* ---- files ----
\* A path: the directory it is in, its base name and how its separators
\* are written.
Path(d, b) == [dir |-> d, base |-> b, sep |-> "/"]

BaseNames == <<"ok.c", "ok.cpp", "err.c", "err.cpp">>
DiskFiles == {<<d, BaseNames[i]>> : d \in {"test_repo", "tmpdir"}, i \in 1..4}
DiskKey(f) == <<f.dir, f.base>>

\* f.endswith(".cpp") and "err.c" in f, for the paths of the sample files
EndsWithCpp(f) == f.base \in {"ok.cpp", "err.cpp"}
ContainsErrC(f) == f.base \in {"err.c", "err.cpp"}
EndsWithErrCpp(f) == f.base = "err.cpp"

\* arg.replace("/", "\\\\") of setup_class on Windows
EscapeSeparators(f) == [f EXCEPT !.sep = "\\\\"]

\* ---- output bytes: a sequence of pieces ----
Piece(t, b) == [t |-> t, f |-> b]
Info == Piece("[INFO] line", "")
WarnCount == Piece("N warnings and ", "")
HookHeader == Piece("hook status line", "")
Unexpected == Piece("other text", "")

\* ---- GeneratorT ----
Scenario(c, a, fs, o, r) ==
    [cmd |-> c, args |-> a, files |-> fs, expd_output |-> o, expd_retcode |-> r]

\* cls.files and cls.retcodes of generate_list_tests
cls_files == [i \in 1..4 |-> Path("test_repo", BaseNames[i])]
cls_retcodes == <<0, 0, 1, 1>>

unc_defaults_path == "tests/uncrustify_defaults.cfg"

\* the list [b"", b"", err_c, err_cpp] each generator builds from a template
OutputList(template) ==
    <<<<>>, <<>>, <<Piece(template, "err.c")>>, <<Piece(template, "err.cpp")>>>>

get_multifile_scenarios_no_diff(err_files) ==
    <<Scenario("clang-format", <<"--style=google", "--no-diff">>, err_files, <<>>, 1),
      Scenario("uncrustify", <<"-c", unc_defaults_path, "--no-diff">>, err_files, <<>>, 1)>>

generate_formatter_tests ==
    LET clang_format_args_sets == <<<<"--style=google">>, <<"--style=google", "-i">>>>
        formatter_output == OutputList("clang_format_err")
        unc_base_args == <<"-c", unc_defaults_path>>
        unc_addtnl_args == <<<<>>, <<"--replace", "--no-backup">>>>
        uncrustify_arg_sets == [k \in 1..2 |-> unc_base_args \o unc_addtnl_args[k]]
        PerFile(i) ==
            [k \in 1..2 |-> Scenario("clang-format", clang_format_args_sets[k],
                                     <<cls_files[i]>>, formatter_output[i], cls_retcodes[i])]
            \o
            [k \in 1..2 |-> Scenario("uncrustify", uncrustify_arg_sets[k],
                                     <<cls_files[i]>>, formatter_output[i], cls_retcodes[i])]
    IN  Flatten([i \in 1..4 |-> PerFile(i)])

\* new_arg_set[new_arg_set.index("-std=c18")] = "-std=c++20" for a .cpp file
LanguageArgs(arg_set, f) ==
    IF EndsWithCpp(f) /\ InSeq("-std=c18", arg_set)
    THEN LET at == CHOOSE i \in 1..Len(arg_set) :
                       /\ arg_set[i] = "-std=c18"
                       /\ \A j \in 1..(i - 1) : arg_set[j] # "-std=c18"
         IN  [arg_set EXCEPT ![at] = "-std=c++20"]
    ELSE arg_set

generate_clang_tidy_tests ==
    LET ct_base_args == <<"-quiet", "-checks=clang-diagnostic-return-type">>
        additional_args == <<<<>>, <<"-fix">>, <<"--fix-errors">>, <<"--", "-std=c18">>>>
        clang_tidy_args_sets == [k \in 1..4 |-> ct_base_args \o additional_args[k]]
        clang_tidy_output == OutputList("clang_tidy_err_str")
        PerFile(i) ==
            [k \in 1..4 |-> Scenario("clang-tidy",
                                     LanguageArgs(clang_tidy_args_sets[k], cls_files[i]),
                                     <<cls_files[i]>>, clang_tidy_output[i], cls_retcodes[i])]
    IN  Flatten([i \in 1..4 |-> PerFile(i)])

\* What a generator hands back: its scenarios, or the exception it raised.
Generated(scenarios) == [ok |-> TRUE, scenarios |-> scenarios]
Raised == [ok |-> FALSE, scenarios |-> <<>>]

\* A variant of the version ladder whose last branch assigns the empty str.
cppcheck_err_empty_str(version) ==
    IF StrLE(version, V_1_88) THEN [type |-> "str", template |-> "cppcheck_err_1_88"]
    ELSE IF StrGE(version, V_1_89) THEN [type |-> "str", template |-> "cppcheck_err_1_89"]
    ELSE [type |-> "str", template |-> ""]

\* The if/elif/else of generate_cppcheck_tests: the value of cppcheck_err.
\* The last branch assigns b"", a bytes object.
cppcheck_err(version) ==
    IF StrLE(version, V_1_88) THEN [type |-> "str", template |-> "cppcheck_err_1_88"]
    ELSE IF StrGE(version, V_1_89) THEN [type |-> "str", template |-> "cppcheck_err_1_89"]
    ELSE [type |-> "bytes", template |-> ""]

\* cppcheck_err.format(path).encode(): str has format, bytes has none
\* (AttributeError); the empty template formats to the empty output.
HasFormat(e) == e.type = "str"
FormatEncode(e, b) == IF e.template = "" THEN <<>> ELSE <<Piece(e.template, b)>>

generate_cppcheck_tests(vers) ==
    LET err == cppcheck_err(vers.cppcheck)
        cppcheck_output ==
            <<<<>>, <<>>, FormatEncode(err, "err.c"), FormatEncode(err, "err.cpp")>>
    IN  IF ~HasFormat(err)
        THEN Raised
        ELSE Generated([i \in 1..4 |-> Scenario("cppcheck", <<>>, <<cls_files[i]>>,
                                                cppcheck_output[i], cls_retcodes[i])])

generate_cpplint_tests ==
    LET cpplint_output == OutputList("cpplint_err_str")
    IN  [i \in 1..4 |-> Scenario("cpplint", <<"--verbose=0", "--quiet">>, <<cls_files[i]>>,
                                 cpplint_output[i], cls_retcodes[i])]

\* A variant of the include-what-you-use table with the shared return codes.
generate_iwyu_tests_shared_retcodes ==
    LET iwyu_output == <<<<>>, <<>>, <<Piece("iwyu_err_c", "err.c")>>,
                         <<Piece("iwyu_err_cpp", "err.cpp")>>>>
    IN  [i \in 1..4 |-> Scenario("include-what-you-use", <<>>, <<cls_files[i]>>,
                                 iwyu_output[i], cls_retcodes[i])]

generate_iwyu_tests ==
    LET iwyu_retcodes == <<0, 0, 3, 3>>
        iwyu_output == <<<<>>, <<>>, <<Piece("iwyu_err_c", "err.c")>>,
                         <<Piece("iwyu_err_cpp", "err.cpp")>>>>
    IN  [i \in 1..4 |-> Scenario("include-what-you-use", <<>>, <<cls_files[i]>>,
                                 iwyu_output[i], iwyu_retcodes[i])]

generate_oclint_tests(vers) ==
    LET newer == StrGT(vers.oclint, V_20)
        base == IF newer
                THEN <<"--enable-global-analysis", "--enable-clang-static-analyzer">>
                ELSE <<"-enable-global-analysis", "-enable-clang-static-analyzer",
                       "-no-analytics">>
        arg_set == base \o <<"--", "-std=c18">>
        template == IF newer THEN "oclint_err https" ELSE "oclint_err http"
        oclint_output == OutputList(template)
        oclint_retcodes == <<0, 0, 6, 6>>
    IN  [i \in 1..4 |-> Scenario("oclint", LanguageArgs(arg_set, cls_files[i]),
                                 <<cls_files[i]>>, oclint_output[i], oclint_retcodes[i])]

\* A variant of generate_list_tests without the platform test.
generate_list_tests_all_platforms(vers, os) ==
    LET first == get_multifile_scenarios_no_diff(<<cls_files[3], cls_files[4]>>)
                 \o generate_formatter_tests
                 \o generate_clang_tidy_tests
        cpp == generate_cppcheck_tests(vers)
    IN  IF ~cpp.ok
        THEN [ok |-> FALSE, scenarios |-> first]
        ELSE Generated(first \o cpp.scenarios \o generate_cpplint_tests
                       \o generate_iwyu_tests \o generate_oclint_tests(vers))

\* generate_list_tests: cls.scenarios, or what it held when a generator raised
generate_list_tests(vers, os) ==
    LET first == get_multifile_scenarios_no_diff(<<cls_files[3], cls_files[4]>>)
                 \o generate_formatter_tests
                 \o generate_clang_tidy_tests
        cpp == generate_cppcheck_tests(vers)
    IN  IF ~cpp.ok
        THEN [ok |-> FALSE, scenarios |-> first]
        ELSE Generated(first \o cpp.scenarios \o generate_cpplint_tests
                       \o (IF os # "nt"
                           THEN generate_iwyu_tests \o generate_oclint_tests(vers)
                           ELSE <<>>))

\* ---- TestHooks ----
\* Entries the integration table may hold ({command, files, args,
\* expd_output, expd_retcode}, with the placeholders still in them).
JsonEntry(c, a, fs, o, r) ==
    [command |-> c, args |-> a, files |-> fs, expd_output |-> o, expd_retcode |-> r]

JsonEntries ==
    {JsonEntry("clang-tidy",
               <<"-quiet", "-config-file={repo_dir}/.clang-tidy", "--fix-errors", "--",
                 "-std=c++20">>,
               <<Path("{test_dir}", "err.cpp")>>,
               <<HookHeader, Piece("clang_tidy_err_str", "{test_dir}/err.cpp")>>, 1),
     JsonEntry("cppcheck", <<>>, <<Path("{test_dir}", "ok.c")>>, <<>>, 0)}

\* arg.replace("{repo_dir}", os.getcwd()) and arg.replace("{test_dir}", tmpdir)
ReplaceRepoDir(arg) ==
    IF arg = "-config-file={repo_dir}/.clang-tidy" THEN "-config-file=cwd/.clang-tidy" ELSE arg
ReplaceTestDirPath(f) == IF f.dir = "{test_dir}" THEN [f EXCEPT !.dir = "tmpdir"] ELSE f
ReplaceTestDirText(t) ==
    IF t = "{test_dir}/err.c" THEN "tmpdir/err.c"
    ELSE IF t = "{test_dir}/err.cpp" THEN "tmpdir/err.cpp"
    ELSE t

TestScenario(type, c, a, fs, o, r) ==
    [test_type |-> type, cmd |-> c, args |-> a, files |-> fs,
     expd_output |-> o, expd_retcode |-> r]

\* setup_class, first loop: s[2] of a generated scenario on this platform
PlatformFiles(fs, os) ==
    IF os = "nt" THEN [i \in 1..Len(fs) |-> EscapeSeparators(fs[i])] ELSE fs

\* setup_class, first loop: one run_shell_cmd test per generated scenario
ShellTests(scenarios, os) ==
    [i \in 1..Len(scenarios) |->
        TestScenario("run_shell_cmd", scenarios[i].cmd, scenarios[i].args,
                     PlatformFiles(scenarios[i].files, os),
                     scenarios[i].expd_output, scenarios[i].expd_retcode)]

\* setup_class, second loop: one run_integration_test test per table entry
IntegrationTests(entries, os) ==
    [i \in 1..Len(entries) |->
        LET s == entries[i]
            a == [k \in 1..Len(s.args) |-> ReplaceRepoDir(s.args[k])]
            fs == [k \in 1..Len(s.files) |-> ReplaceTestDirPath(s.files[k])]
        IN  TestScenario("run_integration_test", s.command, a, PlatformFiles(fs, os),
                         s.expd_output, s.expd_retcode)]

determine_edit_in_place(cmd_name, a) ==
    LET clang_format_in_place == cmd_name = "clang-format" /\ InSeq("-i", a)
        clang_tidy_in_place ==
            cmd_name = "clang-tidy" /\ (InSeq("-fix", a) \/ InSeq("--fix-errors", a))
        uncrustify_in_place == cmd_name = "uncrustify" /\ InSeq("--replace", a)
    IN  clang_format_in_place \/ clang_tidy_in_place \/ uncrustify_in_place

\* The tools: with its in-place flag a tool may rewrite a flawed file.
ToolMayEdit(cmd_name, a, f) ==
    /\ ContainsErrC(f)
    /\ \/ cmd_name = "clang-format" /\ InSeq("-i", a)
       \/ cmd_name = "clang-tidy" /\ (InSeq("-fix", a) \/ InSeq("--fix-errors", a))
       \/ cmd_name = "uncrustify" /\ InSeq("--replace", a)

Targets(fs) == {DiskKey(fs[i]) : i \in 1..Len(fs)}

\* the disk once the tool has run on fs
AfterTool(d, cmd_name, a, fs, edits) ==
    [k \in DiskFiles |->
        IF edits /\ \E i \in 1..Len(fs) : DiskKey(fs[i]) = k /\ ToolMayEdit(cmd_name, a, fs[i])
        THEN "edited" ELSE d[k]]

\* open(f, "w").write(utils.test_file_strs[base_name]) for every f of fs
WriteFixtures(d, fs) == [k \in DiskFiles |-> IF k \in Targets(fs) THEN "fixture" ELSE d[k]]

\* re.sub(rb"\[INFO\].*\n", b"", output) and re.sub(rb"[\d,]+ warnings and ", b"", output)
StripInfo(o) == SelectSeq(o, LAMBDA p : p # Info)
StripWarnings(o) == SelectSeq(o, LAMBDA p : p # WarnCount)

\* any([f.endswith("err.cpp") for f in files]) and "-std=c++20" in args
UnstableWarnings(fs, a) ==
    (\E i \in 1..Len(fs) : EndsWithErrCpp(fs[i])) /\ InSeq("-std=c++20", a)

\* run_shell_cmd after the subprocess returned (actual, retcode)
run_shell_cmd(fs, a, target_output, target_retcode, actual, retcode) ==
    LET normal == IF UnstableWarnings(fs, a) THEN StripWarnings(actual) ELSE actual
    IN  IF target_output # normal THEN "fail_output"
        ELSE IF target_retcode # retcode THEN "fail_retcode"
        ELSE "passed"

\* A variant of run_integration_test that stages the files as it finds them.
rewrite_targets_skipped(d, fs) == d

\* run_integration_test, first loop: every target file is written anew from
\* utils.test_file_strs before it is staged.
rewrite_targets(d, fs) == WriteFixtures(d, fs)

\* target_output.replace(b"{test_dir}", tmpdir.encode())
ResolveTarget(o) == [i \in 1..Len(o) |-> [o[i] EXCEPT !.f = ReplaceTestDirText(o[i].f)]]

\* output_actual of run_integration_test, from what pre-commit wrote
IntegrationActual(fs, a, raw) ==
    LET stripped == StripInfo(raw)
    IN  IF UnstableWarnings(fs, a) THEN StripWarnings(stripped) ELSE stripped

\* A variant of run_integration_test without the check for empty output.
run_integration_test_unchecked(fs, a, target_output, target_retcode, raw, retcode) ==
    LET target == ResolveTarget(target_output)
        output_actual == IntegrationActual(fs, a, raw)
    IN  IF target # output_actual THEN "fail_output"
        ELSE IF target_retcode # retcode THEN "fail_retcode"
        ELSE "passed"

\* run_integration_test after `pre-commit run` returned (raw, retcode)
run_integration_test(fs, a, target_output, target_retcode, raw, retcode) ==
    LET target == ResolveTarget(target_output)
        output_actual == IntegrationActual(fs, a, raw)
    IN  IF output_actual = <<>> THEN "fail_empty"
        ELSE IF target # output_actual THEN "fail_output"
        ELSE IF target_retcode # retcode THEN "fail_retcode"
        ELSE "passed"

\* What the subprocess of a test may write and return: a hook command
\* writes the expected bytes, with or without a warning count, nothing or
\* something else; pre-commit may also write [INFO] lines.
HookOutputs(target) == {<<>>, target, <<WarnCount>> \o target, <<Unexpected>>}
PreCommitOutputs(target) ==
    HookOutputs(target) \cup {<<Info>> \o target, <<Info>>, <<WarnCount>>, <<Info, Unexpected>>}
ActualRetcodes(target_retcode) == {0, 1, target_retcode}

NoTest ==
    [test_type |-> "none", index |-> 0, cmd |-> "", args |-> <<>>, files |-> <<>>,
     will_fix_in_place |-> FALSE, found |-> {}, staged |-> {}, actual |-> <<>>, retcode |-> 0,
     outcome |-> "none"]

\* setup_class of TestHooks, up to the return of generator.generate_list_tests():
\* generator.scenarios is the generated table; an exception of the generator
\* ends setup_class.
GenerateListTests ==
    /\ hpc = "start"
    /\ LET gen == generate_list_tests(versions, osname)
       IN  /\ hpc' = IF gen.ok THEN "generated" ELSE "setup_failed"
           /\ table' = gen.scenarios
    /\ UNCHANGED <<osname, versions, jsonTable, tests, nextTest, disk, last>>
    /\ UNCHANGED cmdVars

\* setup_class of TestHooks, the rest: the two loops that build cls.scenarios.
\* On Windows the first loop rewrites s[2] of the generated scenarios in place.
SetupClass ==
    /\ hpc = "generated"
    /\ hpc' = "running"
    /\ table' = [i \in 1..Len(table) |->
                    [table[i] EXCEPT !.files = PlatformFiles(table[i].files, osname)]]
    /\ tests' = ShellTests(table, osname) \o IntegrationTests(jsonTable, osname)
    /\ UNCHANGED <<osname, versions, jsonTable, nextTest, disk, last>>
    /\ UNCHANGED cmdVars

\* test_run of the next test, with the test function it calls
TestRun ==
    /\ hpc = "running"
    /\ nextTest <= Len(tests)
    /\ LET t == tests[nextTest]
           fix_in_place == determine_edit_in_place(t.cmd, t.args)
           has_err_file == \E i \in 1..Len(t.files) : ContainsErrC(t.files[i])
           will_fix_in_place == fix_in_place /\ has_err_file
           integration == t.test_type = "run_integration_test"
           target == IF integration THEN ResolveTarget(t.expd_output) ELSE t.expd_output
           before == IF integration THEN rewrite_targets(disk, t.files) ELSE disk
           may_edit == \E i \in 1..Len(t.files) : ToolMayEdit(t.cmd, t.args, t.files[i])
       IN  \E actual \in (IF integration THEN PreCommitOutputs(target) ELSE HookOutputs(target)),
              retcode \in ActualRetcodes(t.expd_retcode),
              edits \in (IF may_edit THEN BOOLEAN ELSE {FALSE}) :
              LET ran == AfterTool(before, t.cmd, t.args, t.files, edits)
                  outcome ==
                      IF integration
                      THEN run_integration_test(t.files, t.args, t.expd_output,
                                                t.expd_retcode, actual, retcode)
                      ELSE run_shell_cmd(t.files, t.args, t.expd_output,
                                         t.expd_retcode, actual, retcode)
              IN  /\ disk' = IF outcome = "passed" /\ will_fix_in_place
                             THEN WriteFixtures(ran, t.files)
                             ELSE ran
                  /\ last' = [test_type |-> t.test_type, index |-> nextTest, cmd |-> t.cmd,
                              args |-> t.args, files |-> t.files,
                              will_fix_in_place |-> will_fix_in_place,
                              found |-> IF integration
                                        THEN {disk[k] : k \in Targets(t.files)}
                                        ELSE {},
                              staged |-> IF integration
                                         THEN {before[k] : k \in Targets(t.files)}
                                         ELSE {},
                              actual |-> IF integration THEN actual ELSE <<>>,
                              retcode |-> IF integration THEN retcode ELSE 0,
                              outcome |-> outcome]
    /\ nextTest' = nextTest + 1
    /\ UNCHANGED <<hpc, osname, versions, jsonTable, table, tests>>
    /\ UNCHANGED cmdVars

\* teardown_class, once every test has run
TeardownClass ==
    /\ hpc = "running"
    /\ nextTest > Len(tests)
    /\ hpc' = "done"
    /\ UNCHANGED <<osname, versions, jsonTable, table, tests, nextTest, disk, last>>
    /\ UNCHANGED cmdVars

\* ---------------------------------------------------- specifications
CmdIdle ==
    /\ cpc = "off" /\ argv = <<>> /\ args = <<>> /\ files = <<>> /\ idx = 0
    /\ returncode = 0 /\ captured = <<>> /\ out = <<>> /\ calls = <<>> /\ rcs = <<>>
    /\ exitcode = NoExit

HarnessIdle ==
    /\ hpc = "off" /\ osname = "posix" /\ versions = [cppcheck |-> V_1_89, oclint |-> V_21_05]
    /\ jsonTable = <<>> /\ table = <<>> /\ tests = <<>> /\ nextTest = 1
    /\ disk = [k \in DiskFiles |-> "fixture"] /\ last = NoTest

\* the hook is started as `cppcheck-hook <file>... <flag>...`, the files
\* all different
InitCmd ==
    /\ cpc = "start"
    /\ argv \in {<<"cppcheck-hook">> \o fs \o fl :
                    fs \in {f \in SeqsUpTo(CallerFiles, MaxFiles) : NoRepeat(f)},
                    fl \in SeqsUpTo(CallerFlags, MaxArgs)}
    /\ args = <<>> /\ files = <<>> /\ idx = 0
    /\ returncode = 0 /\ captured = <<>> /\ out = <<>> /\ calls = <<>> /\ rcs = <<>>
    /\ exitcode = NoExit
    /\ HarnessIdle

NextCmd == Construct \/ RunPrint \/ RunCommand \/ ExitOnError

SpecCmd == InitCmd /\ [][NextCmd]_vars

\* a pytest session on some platform, with some installed tool versions
InitHarness ==
    /\ hpc = "start"
    /\ osname \in OsNames
    /\ versions \in [cppcheck : CppcheckVersions, oclint : OclintVersions]
    /\ jsonTable \in SeqsUpTo(JsonEntries, MaxJson)
    /\ table = <<>> /\ tests = <<>> /\ nextTest = 1
    /\ disk = [k \in DiskFiles |-> "fixture"] /\ last = NoTest
    /\ CmdIdle

NextHarness == GenerateListTests \/ SetupClass \/ TestRun \/ TeardownClass

SpecHarness == InitHarness /\ [][NextHarness]_vars

\* ============================================================ claims
\* the flags the caller passed: argv without the program name and the paths
CallerArgs == SelectSeq(Tail(argv), LAMBDA a : a \notin CallerFiles)

\* C1: run() on several files ends in failure exactly when at least one of
\* the cppcheck subprocesses returned a non-zero status, whatever the
\* position of its file; it exits 0 only when every run returned 0.
C1_ExitReflectsEveryFile ==
    (cpc = "exited" /\ Len(files) >= 2)
        => ((exitcode # 0) <=> (\E i \in 1..Len(rcs) : rcs[i] # 0))

\* C2: for one clean file (cppcheck returns 0 and writes nothing) the
\* wrapper exits 0 and has itself written nothing.
C2_CleanFileSilent ==
    (cpc = "exited" /\ Len(files) = 1 /\ rcs = <<0>> /\ captured = <<>>)
        => (exitcode = 0 /\ out = <<>>)

\* C3: run() starts one cppcheck subprocess per file, in list order, the
\* i-th with the argument vector [f_i] followed by the shared argument
\* list; once it has ended every file has been run, whatever the statuses.
C3_OneRunPerFile ==
    /\ cpc \in {"loop", "exited"} =>
          /\ Len(calls) = idx
          /\ Len(rcs) = idx
          /\ \A i \in 1..Len(calls) : calls[i] = <<files[i]>> \o args
    /\ cpc = "exited" => Len(calls) = Len(files)

\* reached: two files were run although the first run returned 1
C3_Witness ==
    /\ cpc = "exited"
    /\ Len(files) = 2
    /\ files[1] # files[2]
    /\ rcs = <<1, 0>>
    /\ calls = <<<<files[1]>> \o args, <<files[2]>> \o args>>

\* C4: after the add_if_missing calls a default the caller supplied is not
\* added again and a default the caller did not supply is present exactly
\* once, also when the caller supplied only some of the --suppress defaults.
C4_EachDefaultOnce ==
    cpc = "constructed" =>
        \A i \in 1..Len(Defaults) :
            IF InSeq(Defaults[i], CallerArgs)
            THEN Count(Defaults[i], args) = Count(Defaults[i], CallerArgs)
            ELSE Count(Defaults[i], args) = 1

C6_RestoredAfterInPlace ==
    last.will_fix_in_place =>
        \A k \in Targets(last.files) : disk[k] = "fixture"

SameScenario(t, s) ==
    /\ t.cmd = s.cmd /\ t.args = s.args /\ t.files = s.files
    /\ t.expd_output = s.expd_output /\ t.expd_retcode = s.expd_retcode

\* C7: every generated scenario is executed under both strategies, the
\* in-process command object and the installed <tool>-hook command, with
\* the same expected output and return code.
C7_BothStrategies ==
    hpc = "done" =>
        \A i \in 1..Len(table) :
            /\ \E j \in 1..Len(tests) :
                  tests[j].test_type = "run_shell_cmd" /\ SameScenario(tests[j], table[i])
            /\ \E j \in 1..Len(tests) :
                  tests[j].test_type = "run_cmd_class" /\ SameScenario(tests[j], table[i])

HasFlawedFile(s) == \E i \in 1..Len(s.files) : ContainsErrC(s.files[i])

FailureCode(c) ==
    IF c = "include-what-you-use" THEN 3 ELSE IF c = "oclint" THEN 6 ELSE 1

\* C8: in the generated table a scenario whose files are all clean expects
\* return code 0 and empty output, and a scenario with a flawed file expects
\* the failure code of its tool and a non-empty output.
C8_FixtureAgreement ==
    hpc \in {"running", "done"} =>
        \A i \in 1..Len(table) :
            IF HasFlawedFile(table[i])
            THEN /\ table[i].expd_retcode = FailureCode(table[i].cmd)
                 /\ table[i].expd_output # <<>>
            ELSE /\ table[i].expd_retcode = 0
                 /\ table[i].expd_output = <<>>

\* C8, amended: as above, but a scenario with a flawed file expects a
\* non-empty output exactly when its arguments do not hold --no-diff.
C8_FixtureAgreementExceptNoDiff ==
    hpc \in {"running", "done"} =>
        \A i \in 1..Len(table) :
            IF HasFlawedFile(table[i])
            THEN /\ table[i].expd_retcode = FailureCode(table[i].cmd)
                 /\ (table[i].expd_output # <<>>) <=> ~InSeq("--no-diff", table[i].args)
            ELSE /\ table[i].expd_retcode = 0
                 /\ table[i].expd_output = <<>>

\* reached: a table with a --no-diff scenario on flawed files that expects
\* no output, and flawed-file scenarios expecting the codes 1, 3 and 6
C8_Witness ==
    /\ hpc = "running"
    /\ \E i \in 1..Len(table) :
          /\ HasFlawedFile(table[i]) /\ InSeq("--no-diff", table[i].args)
          /\ table[i].expd_output = <<>> /\ table[i].expd_retcode = 1
    /\ \E i \in 1..Len(table) :
          HasFlawedFile(table[i]) /\ table[i].expd_retcode = 3 /\ table[i].expd_output # <<>>
    /\ \E i \in 1..Len(table) :
          HasFlawedFile(table[i]) /\ table[i].expd_retcode = 6 /\ table[i].expd_output # <<>>
    /\ \E i \in 1..Len(table) :
          ~HasFlawedFile(table[i]) /\ table[i].expd_retcode = 0

InNeitherBucket(version) == ~StrLE(version, V_1_88) /\ ~StrGE(version, V_1_89)

\* C9: with a cppcheck version in neither output-format bucket the table
\* generation fails: no test list is built and no cppcheck scenario with a
\* defaulted expected output exists.
C9_AmbiguousVersionFails ==
    (hpc # "start" /\ InNeitherBucket(versions.cppcheck)) =>
        /\ hpc = "setup_failed"
        /\ tests = <<>>
        /\ \A i \in 1..Len(table) : table[i].cmd # "cppcheck"

\* reached: setup_class has run with cppcheck 1.88.1 installed
C9_Witness ==
    /\ hpc = "setup_failed"
    /\ versions.cppcheck = V_1_88_1
    /\ InNeitherBucket(versions.cppcheck)

\* C10: an integration run whose output is empty once the [INFO] lines are
\* stripped fails through the dedicated empty-output failure, never as an
\* output mismatch and never as a pass.
C10_EmptyOutputFailsDistinctly ==
    (last.test_type = "run_integration_test" /\ StripInfo(last.actual) = <<>>)
        => last.outcome = "fail_empty"

\* reached: pre-commit wrote only an [INFO] line for a scenario that expects
\* empty output, and returned the expected code
C10_Witness ==
    /\ last.test_type = "run_integration_test"
    /\ last.actual = <<Info>>
    /\ tests[last.index].expd_output = <<>>
    /\ last.retcode = tests[last.index].expd_retcode
    /\ last.outcome = "fail_empty"

\* the tools of the table, the number of argument variants of each, and the
\* tools that are left out on Windows
AllTools ==
    {"clang-format", "uncrustify", "clang-tidy", "cppcheck", "cpplint",
     "include-what-you-use", "oclint"}
UnixOnlyTools == {"include-what-you-use", "oclint"}
VariantCount(c) ==
    IF c = "clang-tidy" THEN 4 ELSE IF c \in {"clang-format", "uncrustify"} THEN 2 ELSE 1
SampleFiles == {Path("test_repo", BaseNames[i]) : i \in 1..4}
SingleFileScenarios == {i \in 1..Len(table) : Len(table[i].files) = 1}

\* C11: generate_list_tests yields, for every tool of the platform, every
\* sample file and every argument variant of the tool, exactly one
\* single-file scenario, nothing else but the 2 multi-file --no-diff
\* scenarios; include-what-you-use and oclint are in the table exactly when
\* the platform is not Windows, the other tools' scenarios do not depend on it.
C11_FullCrossProduct ==
    hpc = "generated" =>
        /\ \A c \in AllTools, f \in SampleFiles :
              Cardinality({i \in SingleFileScenarios :
                              table[i].cmd = c /\ table[i].files = <<f>>})
                  = IF c \in UnixOnlyTools /\ osname = "nt" THEN 0 ELSE VariantCount(c)
        /\ \A i, j \in SingleFileScenarios :
              (/\ table[i].cmd = table[j].cmd
               /\ table[i].args = table[j].args
               /\ table[i].files = table[j].files) => i = j
        /\ \A i \in SingleFileScenarios :
              table[i].cmd \in AllTools /\ table[i].files[1] \in SampleFiles
        /\ Cardinality({i \in 1..Len(table) : i \notin SingleFileScenarios}) = 2
        /\ \A i \in 1..Len(table) :
              i \notin SingleFileScenarios =>
                  /\ InSeq("--no-diff", table[i].args)
                  /\ Len(table[i].files) = 2
        /\ (\E i \in 1..Len(table) : table[i].cmd \in UnixOnlyTools) <=> osname # "nt"

\* reached: the table generated on Windows, 40 single-file scenarios of
\* the five other tools and the 2 multi-file ones
C11_Witness ==
    /\ hpc = "generated"
    /\ osname = "nt"
    /\ Cardinality(SingleFileScenarios) = 40
    /\ Len(table) = 42
    /\ \E i \in SingleFileScenarios :
          table[i].cmd = "clang-tidy" /\ InSeq("-std=c++20", table[i].args)

\* C12: when an integration scenario starts `pre-commit run`, each of its
\* target files holds its fixture content, whatever the earlier scenarios
\* left in it.
C12_FixtureContentAtPreCommitRun ==
    last.test_type = "run_integration_test" => last.staged = {"fixture"}

\* reached: an integration scenario found a target file still edited by an
\* earlier scenario and staged the fixture content
C12_Witness ==
    /\ last.test_type = "run_integration_test"
    /\ last.index > 1
    /\ "edited" \in last.found
    /\ last.staged = {"fixture"}

====
